---- MODULE Spec2Model ----
(***************************************************************************)
(* Model of webhook_server.py: the Railway auto-fix webhook server.        *)
(*                                                                         *)
(* The Flask process serves /webhook and /manual-fix; each request runs    *)
(* its handler, which may start a daemon thread running start_cursor_fix.  *)
(* A handler that starts a thread is modelled in two steps (thread start,  *)
(* then return of the response) so that the background thread can          *)
(* interleave with its own originating request.                            *)
(*                                                                         *)
(* Python values are modelled as strings: "<None>" is None, "<absent>" a   *)
(* key that is missing from a JSON object, "<int 5>" the number 5,         *)
(* "<nonobj>" a JSON value that is not an object.                          *)
(***************************************************************************)
EXTENDS Integers, Sequences, FiniteSets, TLC

VARIABLES
    RAILWAY_TOKEN,   \* os.environ.get('RAILWAY_TOKEN')
    AUTH_TOKEN,      \* os.environ.get('WEBHOOK_AUTH_TOKEN')
    proc,            \* "starting", "serving" or "exited": the __main__ block
    nreq,            \* number of requests received so far
    handlers,        \* requests whose handler started a thread and has not returned yet
    threads,         \* the live threads, running start_cursor_fix
    resp,            \* the request answered by the last step (NoResp if none), with its response
    finished,        \* the thread that ended in the last step (NoThread if none), as it ended
    nwebhookthreads, \* number of threads started by /webhook
    nprocessing,     \* number of /webhook requests answered 200 "processing"
    notifications,   \* the notification store of the notification-only variant
    inserted         \* history: the records appended since the store was last emptied

vars == <<RAILWAY_TOKEN, AUTH_TOKEN, proc, nreq, handlers, threads, resp, finished,
          nwebhookthreads, nprocessing, notifications, inserted>>

(***************************************************************************)
(* Bounds of the model.                                                    *)
(***************************************************************************)
MaxRequests == 2
MaxAppends == 52

(***************************************************************************)
(* Python values.                                                          *)
(***************************************************************************)
PyNone == "<None>"
Absent == "<absent>"
Int5 == "<int 5>"
NonObj == "<nonobj>"

\* bool(v) of a scalar: None, "" are falsy; the number 5 and non-empty strings
\* are truthy.
Truthy(v) == v \notin {PyNone, ""}

\* isinstance(v, str)
IsStr(v) == v \notin {PyNone, Int5, NonObj, Absent}

\* str(v), as an f-string formats it.
Str(v) == IF v = PyNone THEN "None" ELSE IF v = Int5 THEN "5" ELSE v

\* d.get(key) on a dict: None when the key is missing.
Get(v) == IF v = Absent THEN PyNone ELSE v

(***************************************************************************)
(* Requests.  A body is what request.json yields:                          *)
(*   kind "nojson"  the body is not a JSON document: request.json is None  *)
(*   kind "list"    a JSON document that is not an object ([] / [1])       *)
(*   kind "dict"    a JSON object; each field is Absent or its value.      *)
(* deployment / service are Absent, NonObj, or "obj" (an object whose      *)
(* id / name is dep_id / svc_name).                                        *)
(***************************************************************************)
Body(kind, items, event, deployment, dep_id, service, svc_name, deployment_id, logs) ==
    [kind |-> kind, items |-> items, event |-> event,
     deployment |-> deployment, dep_id |-> dep_id,
     service |-> service, svc_name |-> svc_name,
     deployment_id |-> deployment_id, logs |-> logs]

NoJson == Body("nojson", 0, Absent, Absent, Absent, Absent, Absent, Absent, Absent)
EmptyList == Body("list", 0, Absent, Absent, Absent, Absent, Absent, Absent, Absent)
List1 == Body("list", 1, Absent, Absent, Absent, Absent, Absent, Absent, Absent)
EmptyDict == Body("dict", 0, Absent, Absent, Absent, Absent, Absent, Absent, Absent)

\* A JSON object sent to /webhook.
WebhookDict(event, deployment, dep_id, service, svc_name) ==
    Body("dict", 1, event, deployment, dep_id, service, svc_name, Absent, Absent)

\* Bodies sent to /webhook: no JSON, [], [1], {}, failure events with and
\* without their optional fields and with fields that are not objects, other
\* events, and objects without an event.
WebhookBodies ==
    {NoJson, EmptyList, List1, EmptyDict,
     WebhookDict("deployment.failed", Absent, Absent, Absent, Absent),
     WebhookDict("deployment.failed", "obj", Absent, "obj", Absent),
     WebhookDict("deployment.failed", "obj", "d1", "obj", "s1"),
     WebhookDict("deployment.failed", "obj", "d2", Absent, Absent),
     WebhookDict("deployment.failed", NonObj, Absent, "obj", "s1"),
     WebhookDict("deployment.failed", "obj", "d1", NonObj, Absent),
     WebhookDict("deployment.succeeded", Absent, Absent, Absent, Absent),
     WebhookDict("deployment.succeeded", "obj", "d1", "obj", "s1"),
     WebhookDict(Absent, "obj", "d1", Absent, Absent),
     WebhookDict(Absent, "obj", "d1", "obj", "s1")}

\* A JSON object sent to /manual-fix ({} when neither field is there).
ManualDict(i, l) ==
    Body("dict", IF i = Absent /\ l = Absent THEN 0 ELSE 1,
         Absent, Absent, Absent, Absent, Absent, i, l)

\* Bodies sent to /manual-fix: no JSON, [1], {}, and objects with a
\* deployment_id (missing, empty, a string, a number) and logs (missing,
\* empty, given).
ManualBodies ==
    {NoJson, List1,
     ManualDict(Absent, Absent), ManualDict("", Absent), ManualDict(Absent, ""),
     ManualDict("", ""),
     ManualDict("d1", Absent), ManualDict(Absent, "trace"),
     ManualDict("d1", "trace"), ManualDict(Int5, "trace")}

\* Values of the Authorization header (PyNone: no header).
Headers == {PyNone, "Bearer s3cret", "Bearer wrong", "Bearer s3cret "}

\* Mutant: the payload is not validated.
JsonTruthy_any(body) == TRUE

\* bool(request.json): None, {} and [] are falsy.
JsonTruthy(body) == body.kind # "nojson" /\ body.items > 0

(***************************************************************************)
(* Responses.                                                              *)
(***************************************************************************)
\* jsonify({"error": e}), code
ErrorResponse(code, e) ==
    [code |-> code, json |-> TRUE, error |-> e, status |-> Absent, message |-> Absent]

\* jsonify({"status": s, "message": m}) (200)
StatusResponse(s, m) ==
    [code |-> 200, json |-> TRUE, error |-> Absent, status |-> s, message |-> m]

\* An exception that leaves the view function: Flask answers 500 with its
\* own (non-JSON) error page.
UnhandledResponse ==
    [code |-> 500, json |-> FALSE, error |-> Absent, status |-> Absent, message |-> Absent]

\* Not a response: the handler goes on to start its thread.
Dispatch ==
    [code |-> 0, json |-> FALSE, error |-> Absent, status |-> "dispatch", message |-> Absent]

\* A request answered: its response and the threads its handler started.
\* auth is the handler's auth_header (see AuthHeader).
Answered(id, route, auth, body, response, started) ==
    [id |-> id, route |-> route, auth |-> auth, body |-> body, response |-> response,
     started |-> started]

NoResp == Answered(0, Absent, Absent, NoJson, ErrorResponse(0, Absent), {})

(***************************************************************************)
(* The auth check of railway_webhook and manual_fix.                       *)
(***************************************************************************)
\* Mutant: a request without a header passes the check.
Unauthorized_header_optional(auth_header) ==
    /\ Truthy(AUTH_TOKEN)
    /\ Truthy(auth_header)
    /\ auth_header # "Bearer " \o AUTH_TOKEN

\* Mutant: the check is made even when no token is configured.
Unauthorized_always(auth_header) ==
    ~Truthy(auth_header) \/ auth_header # "Bearer " \o AUTH_TOKEN

Unauthorized(auth_header) ==
    /\ Truthy(AUTH_TOKEN)
    /\ (~Truthy(auth_header) \/ auth_header # "Bearer " \o AUTH_TOKEN)

\* The handler's local auth_header: the Authorization header of the request
\* (None if it has none), read only when a token is configured.
AuthHeader(header) == IF Truthy(AUTH_TOKEN) THEN header ELSE Absent

(***************************************************************************)
(* start_cursor_fix, run by a thread.                                      *)
(***************************************************************************)
\* A thread about to run start_cursor_fix(deployment_id, deployment_logs) for
\* request req: its arguments, its locals, the collaborators called so far.
Thread(req, route, deployment_id, deployment_logs) ==
    [req |-> req, route |-> route, args |-> <<deployment_id, deployment_logs>>,
     deployment_id |-> deployment_id, deployment_logs |-> deployment_logs,
     pc |-> "start", result |-> Absent, calls |-> <<>>, raised |-> FALSE]

NoThread == [Thread(0, Absent, PyNone, PyNone) EXCEPT !.pc = Absent]

\* return <result> / the except branch: the thread ends.
\* Mutant: an exception of a collaborator leaves start_cursor_fix uncaught
\* and the thread ends without a result.
Returned_propagate(t, result, raised) ==
    [t EXCEPT !.pc = "done", !.result = IF raised THEN Absent ELSE result,
              !.raised = raised]

Returned(t, result, raised) ==
    [t EXCEPT !.pc = "done", !.result = result, !.raised = raised]

\* A collaborator is called.
Called(t, name) == [t EXCEPT !.calls = Append(@, name)]

\* What fetch_deployment_logs can return: logs, or nothing.
FetchResults == {"fetched logs", PyNone}

\* Lines 55-60: fetch the logs if there are none, give up without logs.
NeedsFetch(t) == ~Truthy(t.deployment_logs) /\ Truthy(t.deployment_id)

\* Mutant: start_cursor_fix goes on without logs.
AfterLogs_continue(t) == [t EXCEPT !.pc = "extract"]

AfterLogs(t) ==
    IF ~Truthy(t.deployment_logs) THEN Returned(t, "False", FALSE)
    ELSE [t EXCEPT !.pc = "extract"]

StepLogs(t) ==
    IF NeedsFetch(t)
    THEN {AfterLogs([Called(t, "fetch_deployment_logs") EXCEPT !.deployment_logs = l]) :
              l \in FetchResults}
         \cup {Returned(Called(t, "fetch_deployment_logs"), "False", TRUE)}
    ELSE {AfterLogs(t)}

\* Line 63: extract_errors_from_logs returns or raises.
StepExtract(t) ==
    LET c == Called(t, "extract_errors_from_logs")
    IN {[c EXCEPT !.pc = "prompt"], Returned(c, "False", TRUE)}

\* Line 66: create_prompt_file returns or raises.
StepPrompt(t) ==
    LET c == Called(t, "create_prompt_file")
    IN {[c EXCEPT !.pc = "launch"], Returned(c, "False", TRUE)}

\* Lines 69-73: launch_cursor_with_prompt returns True or False, or raises.
StepLaunch(t) ==
    LET c == Called(t, "launch_cursor_with_prompt")
    IN {Returned(c, "True", FALSE), Returned(c, "False", FALSE), Returned(c, "False", TRUE)}

Step(t) ==
    CASE t.pc = "start" -> StepLogs(t)
      [] t.pc = "extract" -> StepExtract(t)
      [] t.pc = "prompt" -> StepPrompt(t)
      [] t.pc = "launch" -> StepLaunch(t)

\* The thread records in which start_cursor_fix can end, from t on.
RECURSIVE Run(_)
Run(t) == IF t.pc = "done" THEN {t} ELSE UNION {Run(s) : s \in Step(t)}

\* A live thread runs start_cursor_fix to its end, whatever its
\* collaborators do, and leaves the live threads.
start_cursor_fix(t) ==
    /\ t \in threads
    /\ threads' = threads \ {t}
    /\ finished' \in Run(t)
    /\ resp' = NoResp
    /\ UNCHANGED <<RAILWAY_TOKEN, AUTH_TOKEN, proc, nreq, handlers,
                   nwebhookthreads, nprocessing, notifications, inserted>>

(***************************************************************************)
(* threading.Thread(target=start_cursor_fix, args=..., daemon=True).start() *)
(***************************************************************************)
\* Mutant: no thread is started for a deployment that has a live thread.
StartThread_dedup(req, route, deployment_id, deployment_logs) ==
    IF \E t \in threads : t.deployment_id = deployment_id
    THEN {}
    ELSE {Thread(req, route, deployment_id, deployment_logs)}

\* The threads the call starts.
StartThread(req, route, deployment_id, deployment_logs) ==
    {Thread(req, route, deployment_id, deployment_logs)}

\* The frame of a handler that has started its thread and not returned yet;
\* started: the threads it has started.
Handler(id, route, auth_header, body, deployment_id, started) ==
    [id |-> id, route |-> route, auth_header |-> auth_header, body |-> body,
     deployment_id |-> deployment_id, started |-> started]

(***************************************************************************)
(* POST /webhook: railway_webhook up to its first return or to the start   *)
(* of the thread.                                                          *)
(***************************************************************************)
\* data.get('deployment', {}).get('id') and data.get('service', {}).get('name')
\* raise AttributeError when the field is not an object.
\* Mutant: a payload without a deployment or service object is refused.
FieldsRaise_strict(body) == body.deployment # "obj" \/ body.service # "obj"

FieldsRaise(body) == body.deployment = NonObj \/ body.service = NonObj

\* Mutant: the deployment ID is not read from the payload.
WebhookDeploymentId_none(body) == PyNone

WebhookDeploymentId(body) ==
    IF body.deployment = "obj" THEN Get(body.dep_id) ELSE PyNone

\* Mutant: every deployment event counts as a failure.
IsFailureEvent_any(event_type) ==
    event_type \in {"deployment.failed", "deployment.succeeded"}

\* Line 169: event_type == 'deployment.failed'
IsFailureEvent(event_type) == event_type = "deployment.failed"

\* Mutant: an exception in the handler is left to Flask.
WebhookExcept_unhandled(e) == UnhandledResponse

\* Lines 193-195: an exception in the try block is answered 500 with its text.
WebhookExcept(e) == ErrorResponse(500, e)

\* The outcome of the handler's first part: a response, or Dispatch.
WebhookOutcome(auth_header, body) ==
    IF Unauthorized(auth_header) THEN ErrorResponse(401, "Unauthorized")
    ELSE IF ~JsonTruthy(body) THEN ErrorResponse(400, "Invalid JSON payload")
    ELSE IF body.kind # "dict"
        THEN WebhookExcept("'list' object has no attribute 'get'")
    ELSE IF IsFailureEvent(Get(body.event))
        THEN IF FieldsRaise(body)
             THEN WebhookExcept("'str' object has no attribute 'get'")
             ELSE Dispatch
    ELSE StatusResponse("ignored", "Event is not a deployment failure")

railway_webhook(auth_header, body) ==
    /\ proc = "serving"
    /\ nreq < MaxRequests
    /\ nreq' = nreq + 1
    /\ LET out == WebhookOutcome(auth_header, body)
           id == nreq + 1
       IN IF out = Dispatch
          THEN LET started == StartThread(id, "/webhook", WebhookDeploymentId(body), PyNone)
               IN /\ threads' = threads \cup started
                  /\ nwebhookthreads' = nwebhookthreads + Cardinality(started)
                  /\ handlers' = handlers \cup
                        {Handler(id, "/webhook", AuthHeader(auth_header), body,
                                 WebhookDeploymentId(body), started)}
               /\ resp' = NoResp
          ELSE /\ resp' = Answered(id, "/webhook", AuthHeader(auth_header), body, out, {})
               /\ UNCHANGED <<threads, handlers, nwebhookthreads>>
    /\ finished' = NoThread
    /\ UNCHANGED <<RAILWAY_TOKEN, AUTH_TOKEN, proc, nprocessing, notifications, inserted>>

\* Mutant: the handler joins the thread it started.
WaitsFor_join(h) == {t \in threads : t.req = h.id}

\* The threads a handler waits for before it returns: none, the thread it
\* started is never joined.
WaitsFor(h) == {}

\* Lines 182-185: the handler returns its response.
WebhookResponse(h) ==
    StatusResponse("processing",
                   "Cursor auto-fix started for deployment " \o Str(h.deployment_id))

railway_webhook_return(h) ==
    /\ h \in handlers
    /\ h.route = "/webhook"
    /\ WaitsFor(h) = {}
    /\ handlers' = handlers \ {h}
    /\ resp' = Answered(h.id, h.route, h.auth_header, h.body, WebhookResponse(h),
                        h.started)
    /\ nprocessing' = nprocessing + 1
    /\ finished' = NoThread
    /\ UNCHANGED <<RAILWAY_TOKEN, AUTH_TOKEN, proc, nreq, threads,
                   nwebhookthreads, notifications, inserted>>

(***************************************************************************)
(* POST /manual-fix: manual_fix up to its first return or to the start of  *)
(* the thread.  It has no try block: an exception leaves the handler.      *)
(***************************************************************************)
\* Mutant: only missing fields count, empty ones do not.
NeitherGiven_none(deployment_id, logs) == deployment_id = PyNone /\ logs = PyNone

\* Line 225: not deployment_id and not logs
NeitherGiven(deployment_id, logs) == ~Truthy(deployment_id) /\ ~Truthy(logs)

ManualOutcome(auth_header, body) ==
    IF Unauthorized(auth_header) THEN ErrorResponse(401, "Unauthorized")
    ELSE IF ~JsonTruthy(body) THEN ErrorResponse(400, "Invalid JSON payload")
    ELSE IF body.kind # "dict" THEN UnhandledResponse
    ELSE IF NeitherGiven(Get(body.deployment_id), Get(body.logs))
        THEN ErrorResponse(400, "Either deployment_id or logs must be provided")
    ELSE Dispatch

manual_fix(auth_header, body) ==
    /\ proc = "serving"
    /\ nreq < MaxRequests
    /\ nreq' = nreq + 1
    /\ LET out == ManualOutcome(auth_header, body)
           id == nreq + 1
       IN IF out = Dispatch
          THEN LET started == StartThread(id, "/manual-fix", Get(body.deployment_id),
                                           Get(body.logs))
               IN /\ threads' = threads \cup started
                  /\ handlers' = handlers \cup
                        {Handler(id, "/manual-fix", AuthHeader(auth_header), body,
                                 Get(body.deployment_id), started)}
               /\ resp' = NoResp
          ELSE /\ resp' = Answered(id, "/manual-fix", AuthHeader(auth_header), body, out, {})
               /\ UNCHANGED <<threads, handlers>>
    /\ finished' = NoThread
    /\ UNCHANGED <<RAILWAY_TOKEN, AUTH_TOKEN, proc, nwebhookthreads,
                   nprocessing, notifications, inserted>>

\* Lines 235-238: 'deployment ' + deployment_id raises TypeError when
\* deployment_id is not a string.
ManualResponse(h) ==
    IF Truthy(h.deployment_id)
    THEN IF IsStr(h.deployment_id)
         THEN StatusResponse("processing",
                             "Cursor auto-fix started for deployment " \o h.deployment_id)
         ELSE UnhandledResponse
    ELSE StatusResponse("processing", "Cursor auto-fix started for provided logs")

manual_fix_return(h) ==
    /\ h \in handlers
    /\ h.route = "/manual-fix"
    /\ WaitsFor(h) = {}
    /\ handlers' = handlers \ {h}
    /\ resp' = Answered(h.id, h.route, h.auth_header, h.body, ManualResponse(h),
                        h.started)
    /\ finished' = NoThread
    /\ UNCHANGED <<RAILWAY_TOKEN, AUTH_TOKEN, proc, nreq, threads,
                   nwebhookthreads, nprocessing, notifications, inserted>>

(***************************************************************************)
(* The __main__ block.                                                     *)
(***************************************************************************)
(***************************************************************************)
(* GET /health.                                                            *)
(***************************************************************************)
\* What requests.post to the Railway API does: it returns a response with
\* status 200 or another status, or raises (timeout, connection error).
ProbeErrors == {"Read timed out"}
Probes == {"200", "503"} \cup ProbeErrors

\* Requests to /health come without credential: the handler reads no header.
HealthHeaders == {PyNone}

HealthResponse(m) ==
    [code |-> 200, json |-> TRUE, error |-> Absent, status |-> "healthy", message |-> m]

\* Mutant: an exception of the probe is answered 500.
HealthExcept_fail(e) == ErrorResponse(500, e)

\* The except branch of health.
HealthExcept(e) == HealthResponse("Webhook service is running with warning: " \o e)

HealthOutcome(token, probe) ==
    IF Truthy(token) /\ probe \in ProbeErrors THEN HealthExcept(probe)
    ELSE IF Truthy(token) /\ probe = "200"
         THEN HealthResponse("Webhook service is running correctly and can connect to Railway API")
         ELSE HealthResponse("Webhook service is running")

\* The answer of /health after the Railway API did probe.  The handler never
\* reads the Authorization header of the request.
HealthAnswered(probe, response) ==
    [id |-> 0, route |-> "/health", auth |-> Absent, body |-> NoJson,
     response |-> response, started |-> {}, probe |-> probe]

health(header, probe) ==
    /\ proc = "serving"
    /\ resp' = HealthAnswered(probe, HealthOutcome(RAILWAY_TOKEN, probe))
    /\ finished' = NoThread
    /\ UNCHANGED <<RAILWAY_TOKEN, AUTH_TOKEN, proc, nreq, handlers, threads,
                   nwebhookthreads, nprocessing, notifications, inserted>>

\* Mutant: the server starts whether or not RAILWAY_TOKEN is set.
main_lenient ==
    /\ proc = "starting"
    /\ proc' = "serving"
    /\ UNCHANGED <<RAILWAY_TOKEN, AUTH_TOKEN, nreq, handlers, threads, resp, finished,
                   nwebhookthreads, nprocessing, notifications, inserted>>

main ==
    /\ proc = "starting"
    /\ proc' = IF ~Truthy(RAILWAY_TOKEN) THEN "exited" ELSE "serving"
    /\ UNCHANGED <<RAILWAY_TOKEN, AUTH_TOKEN, nreq, handlers, threads, resp, finished,
                   nwebhookthreads, nprocessing, notifications, inserted>>

Init ==
    /\ RAILWAY_TOKEN \in {PyNone, "railway-token"}
    /\ AUTH_TOKEN \in {PyNone, "s3cret"}
    /\ proc = "starting"
    /\ nreq = 0
    /\ handlers = {}
    /\ threads = {}
    /\ resp = NoResp
    /\ finished = NoThread
    /\ nwebhookthreads = 0
    /\ nprocessing = 0
    /\ notifications = <<>>
    /\ inserted = <<>>

Next ==
    \/ main
    \/ \E a \in Headers, b \in WebhookBodies : railway_webhook(a, b)
    \/ \E h \in handlers : railway_webhook_return(h)
    \/ \E a \in Headers, b \in ManualBodies : manual_fix(a, b)
    \/ \E h \in handlers : manual_fix_return(h)
    \/ \E t \in threads : start_cursor_fix(t)
    \/ \E a \in HealthHeaders, p \in Probes : health(a, p)

Spec == Init /\ [][Next]_vars

(***************************************************************************)
(* The notification-only variant of the server: its /webhook handler       *)
(* records every delivery in the bounded notification store and starts no  *)
(* thread; /clear-notifications empties the store.                         *)
(***************************************************************************)
MAX_NOTIFICATIONS == 50

\* Mutant: the bound is enforced one record late.
append_late(store, record) ==
    LET s == Append(store, record)
    IN IF Len(s) > MAX_NOTIFICATIONS + 1 THEN Tail(s) ELSE s

\* Mutant: the newest record is evicted instead of the oldest.
append_evict_newest(store, record) ==
    LET s == Append(store, record)
    IN IF Len(s) > MAX_NOTIFICATIONS THEN SubSeq(s, 1, MAX_NOTIFICATIONS) ELSE s

\* append(record): insert at the end, then remove from the front until the
\* length is back at the bound.
RECURSIVE Evict(_)
Evict(s) == IF Len(s) > MAX_NOTIFICATIONS THEN Evict(Tail(s)) ELSE s

append(store, record) == Evict(Append(store, record))

\* The record stored for a delivery: receivedAt is the number of the
\* delivery since the store was last emptied.
Notification(body) == [receivedAt |-> Len(inserted) + 1, payload |-> body]

\* Bodies delivered to the notification-only /webhook.
NotifyBodies ==
    {NoJson, WebhookDict("deployment.failed", "obj", "d1", "obj", "s1")}

NotifyOutcome(auth_header, body) ==
    IF Unauthorized(auth_header) THEN ErrorResponse(401, "Unauthorized")
    ELSE IF ~JsonTruthy(body) THEN ErrorResponse(400, "Invalid JSON payload")
    ELSE IF IsFailureEvent(Get(body.event))
        THEN StatusResponse("received",
                 "Notification received for failed deployment "
                     \o Str(WebhookDeploymentId(body)))
    ELSE StatusResponse("received", "Notification received")

notify_webhook(auth_header, body) ==
    /\ proc = "serving"
    /\ nreq < MaxAppends
    /\ nreq' = nreq + 1
    /\ LET out == NotifyOutcome(auth_header, body)
       IN /\ resp' = Answered(0, "/webhook", AuthHeader(auth_header), body, out, {})
          /\ IF out.code = 200
             THEN /\ notifications' = append(notifications, Notification(body))
                  /\ inserted' = Append(inserted, Notification(body))
             ELSE UNCHANGED <<notifications, inserted>>
    /\ UNCHANGED <<RAILWAY_TOKEN, AUTH_TOKEN, proc, handlers, threads, finished,
                   nwebhookthreads, nprocessing>>

clear_notifications(auth_header) ==
    /\ proc = "serving"
    /\ nreq < MaxAppends
    /\ nreq' = nreq + 1
    /\ IF Unauthorized(auth_header)
       THEN /\ resp' = Answered(0, "/clear-notifications", AuthHeader(auth_header), NoJson,
                                ErrorResponse(401, "Unauthorized"), {})
            /\ UNCHANGED <<notifications, inserted>>
       ELSE /\ resp' = Answered(0, "/clear-notifications", AuthHeader(auth_header), NoJson,
                                StatusResponse("success", "cleared"), {})
            /\ notifications' = <<>>
            /\ inserted' = <<>>
    /\ UNCHANGED <<RAILWAY_TOKEN, AUTH_TOKEN, proc, handlers, threads, finished,
                   nwebhookthreads, nprocessing>>

StoreInit ==
    /\ RAILWAY_TOKEN = PyNone
    /\ AUTH_TOKEN \in {PyNone, "s3cret"}
    /\ proc = "serving"
    /\ nreq = 0
    /\ handlers = {}
    /\ threads = {}
    /\ resp = NoResp
    /\ finished = NoThread
    /\ nwebhookthreads = 0
    /\ nprocessing = 0
    /\ notifications = <<>>
    /\ inserted = <<>>

StoreNext ==
    \/ \E a \in {PyNone, "Bearer s3cret"}, b \in NotifyBodies : notify_webhook(a, b)
    \/ \E a \in {PyNone, "Bearer s3cret"} : clear_notifications(a)

StoreSpec == StoreInit /\ [][StoreNext]_vars

(***************************************************************************)
(* Properties.                                                             *)
(***************************************************************************)
Min(a, b) == IF a < b THEN a ELSE b

\* The request answered by r carried the exact "Bearer <token>" header, or no
\* token is configured.
Authorized(r) == ~Truthy(AUTH_TOKEN) \/ r.auth = "Bearer " \o AUTH_TOKEN

\* The request answered by r has started no thread.
NoThreadOf(r) ==
    /\ r.started = {}
    /\ \A t \in threads : t.req # r.id
    /\ \A h \in handlers : h.id # r.id

\* C1: with a token configured, a request to /webhook or /manual-fix whose
\* Authorization header is missing or is not exactly "Bearer <token>" is
\* answered 401 {"error": "Unauthorized"} whatever its body; it has started
\* no thread and left the notification store alone.
C1_UnauthorizedRejected ==
    (/\ Truthy(AUTH_TOKEN)
     /\ resp.route \in {"/webhook", "/manual-fix"}
     /\ resp.auth # "Bearer " \o AUTH_TOKEN)
    => /\ resp.response = ErrorResponse(401, "Unauthorized")
       /\ NoThreadOf(resp)
       /\ notifications = <<>>

\* A well-formed /manual-fix request with a wrong token is rejected while
\* the thread of an earlier, authorized request is live.
C1_Witness ==
    /\ Truthy(AUTH_TOKEN)
    /\ resp.route = "/manual-fix"
    /\ resp.auth = "Bearer wrong"
    /\ resp.body = ManualDict("d1", "trace")
    /\ resp.response.code = 401
    /\ threads # {}

\* The response of /webhook to a failure event for deployment d, and the one
\* thread it starts.
FailedFor(r, d) ==
    /\ r.route = "/webhook"
    /\ Authorized(r)
    /\ r.body.kind = "dict"
    /\ r.body.event = "deployment.failed"
    /\ r.body.deployment = "obj"
    /\ r.body.dep_id = d

ProcessingFor(r, d) ==
    /\ r.response = StatusResponse("processing",
                                   "Cursor auto-fix started for deployment " \o d)
    /\ r.started = {Thread(r.id, "/webhook", d, PyNone)}
    /\ \A t \in threads : t.req = r.id => t \in r.started

\* C2 as stated: an authorized deployment.failed webhook with deployment.id d
\* is answered 200 "processing" with a message naming d and starts exactly one
\* thread, with deployment ID d and no logs.
C2_Original ==
    \A d \in {"d1", "d2"} : FailedFor(resp, d) => ProcessingFor(resp, d)

\* C2, amended: the same, for a payload whose service field is absent or an
\* object.
C2_FailedDispatched ==
    \A d \in {"d1", "d2"} :
        FailedFor(resp, d) /\ resp.body.service # NonObj => ProcessingFor(resp, d)

C2_Witness ==
    /\ FailedFor(resp, "d2")
    /\ resp.response.status = "processing"
    /\ \E t \in threads : t.req = resp.id /\ t.args = <<"d2", PyNone>>

\* C3: an authorized webhook whose event is not "deployment.failed" is
\* answered 200 "ignored" and starts no thread; the number of threads started
\* by /webhook is the number of failure webhooks accepted (answered
\* "processing", or about to be).
C3_OnlyFailuresDispatch ==
    /\ (/\ resp.route = "/webhook"
        /\ Authorized(resp)
        /\ resp.body.kind = "dict"
        /\ resp.body.event \notin {Absent, "deployment.failed"})
       => /\ resp.response = StatusResponse("ignored", "Event is not a deployment failure")
          /\ NoThreadOf(resp)
    /\ nwebhookthreads
         = nprocessing + Cardinality({h \in handlers : h.route = "/webhook"})
    /\ \A h \in handlers :
          h.route = "/webhook" => h.body.event = "deployment.failed"
    /\ resp.route = "/webhook" /\ resp.response.status = "processing"
          => resp.body.event = "deployment.failed"

C3_Witness ==
    /\ resp.route = "/webhook"
    /\ resp.body.event = "deployment.succeeded"
    /\ resp.response.status = "ignored"
    /\ nwebhookthreads = 1

C5_OpenMode ==
    ~Truthy(AUTH_TOKEN) =>
      /\ resp.response.code # 401
      /\ \A a \in Headers :
            /\ WebhookOutcome(a, resp.body) = WebhookOutcome(PyNone, resp.body)
            /\ WebhookOutcome(a, resp.body).code # 401
            /\ ManualOutcome(a, resp.body) = ManualOutcome(PyNone, resp.body)
            /\ ManualOutcome(a, resp.body).code # 401

\* Without a token, a /manual-fix request has been served and one to
\* /webhook has started its thread.
C5_Witness ==
    /\ AUTH_TOKEN = PyNone
    /\ resp.route = "/manual-fix"
    /\ resp.response.status = "processing"
    /\ \E h \in handlers : h.route = "/webhook"

\* C6: an authorized /manual-fix request whose JSON object carries neither a
\* deployment_id nor logs (the field is missing or empty, {} included) is
\* answered 400 and starts no thread.
C6_NeitherRejected ==
    (/\ resp.route = "/manual-fix"
     /\ Authorized(resp)
     /\ resp.body.kind = "dict"
     /\ resp.body.deployment_id \in {Absent, ""}
     /\ resp.body.logs \in {Absent, ""})
    => /\ resp.response.code = 400
       /\ resp.response.json
       /\ NoThreadOf(resp)

C6_Witness ==
    /\ resp.route = "/manual-fix"
    /\ resp.body = ManualDict("", "")
    /\ resp.response = ErrorResponse(400, "Either deployment_id or logs must be provided")

\* C7 as stated: an authorized /manual-fix request that carries logs is
\* answered 200 "processing" and starts exactly one thread, which runs on
\* these logs and never calls fetch_deployment_logs, with or without a
\* deployment_id.
C7_Original ==
    /\ (/\ resp.route = "/manual-fix"
        /\ Authorized(resp)
        /\ resp.body.kind = "dict"
        /\ resp.body.logs = "trace")
       => /\ resp.response.code = 200
          /\ resp.response.status = "processing"
          /\ resp.started = {Thread(resp.id, "/manual-fix",
                                    Get(resp.body.deployment_id), "trace")}
    /\ (finished.route = "/manual-fix" /\ finished.args[2] = "trace")
       => /\ finished.deployment_logs = "trace"
          /\ \A i \in 1..Len(finished.calls) :
                finished.calls[i] # "fetch_deployment_logs"

C9_StoreBounded ==
    /\ Len(notifications) <= 50
    /\ Len(notifications) = Min(Len(inserted), 50)
    /\ notifications
         = SubSeq(inserted, Len(inserted) - Len(notifications) + 1, Len(inserted))

C9_Witness ==
    /\ Len(inserted) = 52
    /\ Len(notifications) = 50
    /\ notifications[1].receivedAt = 3

\* C10 as stated: an authorized /webhook request whose body parses (here: to
\* a JSON object with fields) is appended to the notification store, before
\* classification and before any thread is started; a deployment.failed
\* webhook adds one record.
C10_Original ==
    /\ (/\ resp.route = "/webhook"
        /\ Authorized(resp)
        /\ resp.body.kind = "dict"
        /\ resp.body.items > 0)
       => Len(notifications) >= 1
    /\ \A h \in handlers : h.route = "/webhook" => Len(notifications) >= 1

\* The Railway API did not answer the probe of /health with 200.
ProbeFailed(probe) == probe # "200"

HasWarning(m) ==
    m \in {"Webhook service is running with warning: " \o e : e \in ProbeErrors}

\* C11 as stated: /health answers 200 "healthy" whatever the header and the
\* outcome of the probe, and after every failed probe (non-200 status,
\* timeout or exception) the message carries a warning.
C11_Original ==
    resp.route = "/health"
      => /\ resp.response.code = 200
         /\ resp.response.status = "healthy"
         /\ ProbeFailed(resp.probe) => HasWarning(resp.response.message)

\* C11, amended: /health answers 200 "healthy" as JSON whatever the header
\* and the outcome of the probe, also when no token is configured; the
\* message carries a warning exactly when the probe raised (timeout,
\* connection error), and a non-200 status of the probe gives the plain
\* "Webhook service is running".
C11_HealthAlwaysHealthy ==
    /\ resp.route = "/health"
         => /\ resp.response.code = 200
            /\ resp.response.json
            /\ resp.response.status = "healthy"
            /\ HasWarning(resp.response.message) <=> resp.probe \in ProbeErrors
            /\ resp.probe = "503"
                  => resp.response.message = "Webhook service is running"
            /\ HealthOutcome(PyNone, resp.probe)
                  = HealthResponse("Webhook service is running")
    /\ ENABLED main \/ proc = "exited" \/ \A a \in Headers, p \in Probes : ENABLED health(a, p)

\* With a token configured, /health has answered "healthy" with a warning
\* after the probe timed out, while a thread is live.
C11_Witness ==
    /\ Truthy(AUTH_TOKEN)
    /\ resp.route = "/health"
    /\ resp.probe = "Read timed out"
    /\ resp.response = HealthResponse("Webhook service is running with warning: Read timed out")
    /\ threads # {}

\* The thread t has called the collaborator name, n times.
NCalls(t, name) == Cardinality({i \in 1..Len(t.calls) : t.calls[i] = name})

Collaborators ==
    {"fetch_deployment_logs", "extract_errors_from_logs", "create_prompt_file",
     "launch_cursor_with_prompt"}

\* C12: a thread that ended without logs (none were given, and the
\* deployment ID is absent or the fetch yielded nothing) returned False
\* without calling error extraction, prompt creation or launch; the fetch is
\* called exactly when no logs were given and a deployment ID was.
C12_FailFast ==
    finished # NoThread =>
      /\ (/\ ~Truthy(finished.args[2])
          /\ ~Truthy(finished.args[1]) \/ ~Truthy(finished.deployment_logs))
         => /\ finished.result = "False"
            /\ \A c \in Collaborators \ {"fetch_deployment_logs"} : NCalls(finished, c) = 0
      /\ ~Truthy(finished.args[2]) /\ ~Truthy(finished.args[1])
            => finished.calls = <<>> /\ ~finished.raised
      /\ NCalls(finished, "fetch_deployment_logs")
            = IF ~Truthy(finished.args[2]) /\ Truthy(finished.args[1]) THEN 1 ELSE 0

\* The fetch for deployment d1 yielded nothing and the thread returned False.
C12_Witness ==
    /\ finished.args = <<"d1", PyNone>>
    /\ finished.calls = <<"fetch_deployment_logs">>
    /\ finished.deployment_logs = PyNone
    /\ ~finished.raised
    /\ finished.result = "False"

\* The response of the request answered by r, as its header and body alone
\* determine it.
ResponseOf(r) ==
    LET out == IF r.route = "/webhook" THEN WebhookOutcome(r.auth, r.body)
                                       ELSE ManualOutcome(r.auth, r.body)
    IN IF out # Dispatch THEN out
       ELSE IF r.route = "/webhook"
            THEN StatusResponse("processing", "Cursor auto-fix started for deployment "
                                              \o Str(WebhookDeploymentId(r.body)))
            ELSE ManualResponse([deployment_id |-> Get(r.body.deployment_id)])

\* C13: a thread in which a collaborator raised ended with result False
\* right after that call; no collaborator is called twice in a thread; every
\* response is the one the request alone determines, whatever the threads
\* did; and after a thread has failed the server is serving and takes the
\* next requests.
C13_TaskFailureContained ==
    /\ finished # NoThread =>
         /\ finished.pc = "done"
         /\ finished.result \in {"True", "False"}
         /\ finished.raised => finished.result = "False" /\ finished.calls # <<>>
         /\ \A c \in Collaborators : NCalls(finished, c) <= 1
         /\ finished.raised =>
              /\ proc = "serving"
              /\ \A p \in Probes : ENABLED health(PyNone, p)
              /\ nreq < MaxRequests =>
                   /\ \A b \in WebhookBodies : ENABLED railway_webhook(PyNone, b)
                   /\ \A b \in ManualBodies : ENABLED manual_fix(PyNone, b)
              /\ \A h \in handlers :
                   ENABLED railway_webhook_return(h) \/ ENABLED manual_fix_return(h)
    /\ resp.route \in {"/webhook", "/manual-fix"} => resp.response = ResponseOf(resp)

\* create_prompt_file raised in the thread of a request whose handler has
\* not returned yet.
C13_Witness ==
    /\ finished.raised
    /\ finished.result = "False"
    /\ finished.calls = <<"fetch_deployment_logs", "extract_errors_from_logs",
                          "create_prompt_file">>
    /\ \E h \in handlers : h.id = finished.req
    /\ nreq < MaxRequests

\* The handler of /webhook raises on this parsed body: the document is not
\* an object, or a failure event's deployment or service field is not one.
WebhookRaises(body) ==
    /\ JsonTruthy(body)
    /\ \/ body.kind # "dict"
       \/ body.event = "deployment.failed" /\ FieldsRaise(body)

\* C14: an authorized /webhook request on whose parsed body the handler
\* raises is answered 500 with a JSON body {"error": <message>} and starts no
\* thread; every response of /webhook is JSON; the server is still serving
\* and takes the next request.
C14_WebhookFailureIs500 ==
    resp.route = "/webhook" =>
      /\ resp.response.json
      /\ resp.response.code \in {200, 400, 401, 500}
      /\ Authorized(resp) /\ WebhookRaises(resp.body)
           => /\ resp.response.code = 500
              /\ resp.response.error \in {"'list' object has no attribute 'get'",
                                          "'str' object has no attribute 'get'"}
              /\ NoThreadOf(resp)
              /\ proc = "serving"
              /\ \A p \in Probes : ENABLED health(PyNone, p)
              /\ nreq < MaxRequests => ENABLED railway_webhook(resp.auth, resp.body)

\* A failure event whose deployment field is a string has been answered 500,
\* and the server can take another request.
C14_Witness ==
    /\ resp.route = "/webhook"
    /\ resp.body.event = "deployment.failed"
    /\ resp.body.deployment = NonObj
    /\ resp.response = ErrorResponse(500, "'str' object has no attribute 'get'")
    /\ nreq < MaxRequests

\* C15 as stated: an authorized /webhook request whose body is a JSON object
\* without an event field, the empty object {} included, is answered 200
\* "ignored" and starts no thread.
C15_Original ==
    (/\ resp.route = "/webhook"
     /\ Authorized(resp)
     /\ resp.body.kind = "dict"
     /\ resp.body.event = Absent)
    => /\ resp.response = StatusResponse("ignored", "Event is not a deployment failure")
       /\ NoThreadOf(resp)

\* A failure event in which deployment, deployment.id, service or
\* service.name is absent (and no field has the wrong type).
FailedMissingFields(body) ==
    /\ body.kind = "dict"
    /\ body.event = "deployment.failed"
    /\ body.deployment \in {Absent, "obj"}
    /\ body.service \in {Absent, "obj"}
    /\ Absent \in {body.deployment, body.dep_id, body.service, body.svc_name}

\* The deployment ID such a payload makes available: its deployment.id, or None.
AvailableId(body) ==
    IF body.deployment = "obj" /\ body.dep_id # Absent THEN body.dep_id ELSE PyNone

\* C16: an authorized failure event with missing optional fields is answered
\* 200 "processing" and has started exactly one thread, with the deployment
\* ID the payload has (None if it has none) and no logs; no such request is
\* answered with an error.
C16_MissingFieldsAccepted ==
    /\ (resp.route = "/webhook" /\ Authorized(resp) /\ FailedMissingFields(resp.body))
       => /\ resp.response.code = 200
          /\ resp.response.status = "processing"
          /\ resp.response.message
               = "Cursor auto-fix started for deployment " \o Str(AvailableId(resp.body))
          /\ resp.started = {Thread(resp.id, "/webhook", AvailableId(resp.body), PyNone)}
          /\ \A t \in threads : t.req = resp.id => t \in resp.started
    /\ \A h \in handlers :
          h.route = "/webhook" /\ FailedMissingFields(h.body)
            => /\ h.started = {Thread(h.id, "/webhook", AvailableId(h.body), PyNone)}
               /\ \A t \in threads : t.req = h.id => t \in h.started

\* A failure event without deployment and service has been answered
\* "processing"; its thread, started without an ID, is live.
C16_Witness ==
    /\ resp.route = "/webhook"
    /\ resp.body = WebhookDict("deployment.failed", Absent, Absent, Absent, Absent)
    /\ resp.response = StatusResponse("processing",
                                      "Cursor auto-fix started for deployment None")
    /\ \E t \in threads : t.req = resp.id /\ t.args = <<PyNone, PyNone>>

\* C17: every accepted failure event or manual fix starts a thread of its
\* own, whatever threads are live and whatever their deployment IDs: the
\* step that accepts a request adds exactly one live thread, with the
\* deployment ID of this request, and ends none.
C17_NoDedup ==
    [][\A h \in handlers' \ handlers :
          /\ Cardinality(threads') = Cardinality(threads) + 1
          /\ threads \subseteq threads'
          /\ \E t \in threads' \ threads :
                /\ t.req = h.id
                /\ t.deployment_id = h.deployment_id
                /\ h.started = {t}]_vars

\* Two threads started by /webhook for the same deployment d1 are live at
\* the same time, as many as requests were made.
C17_Witness ==
    /\ Cardinality(threads) = 2
    /\ \A t \in threads : t.route = "/webhook" /\ t.deployment_id = "d1"
    /\ nwebhookthreads = 2

\* C18 as stated: every request to /manual-fix is answered with a JSON body
\* and status 200, 400 or 401, whatever the shape of the parsed body.
C18_Original ==
    resp.route = "/manual-fix"
      => resp.response.json /\ resp.response.code \in {200, 400, 401}

C20_Original ==
    resp.route \in {"/webhook", "/manual-fix"}
      => /\ resp.started # {}
              => resp.response.code = 200 /\ resp.response.status = "processing"
         /\ resp.response.code # 200 => NoThreadOf(resp)
====
